---- MODULE Spec2Model ----
(***************************************************************************)
(* Model of wallpaper-manager.py: the SQLite rotation store                *)
(* (wallpaper_history, rotation_state), the candidate selection            *)
(* (get_unshown_images), the display record (mark_image_displayed), the    *)
(* activation (set_wallpaper_hyprpaper) and the cycle controller           *)
(* (change_wallpaper, run_once, run_daemon).                               *)
(*                                                                         *)
(* Specifications:                                                         *)
(*   Spec         the daemon running cycles; the image directory may       *)
(*                change at any moment; the database may fail. The clock   *)
(*                stands still: no branch of the code reads a timestamp    *)
(*   SpecBetween  as Spec, the directory changing only between cycles      *)
(*   SpecFixed    a fresh store, a fixed pool, nothing fails               *)
(*   StoreSpec    the store operations called directly, in any order, the  *)
(*                clock advancing from each call to the next               *)
(***************************************************************************)
EXTENDS Integers, Sequences, FiniteSets, TLC

\* ------------------------------------------------------------- bounds
NumFiles == 3
NumTargets == 2
MaxCalls == 4

Files == 1..NumFiles
Targets == 1..NumTargets

\* A DATETIME column that was never set.
NULL == -1
\* The only id rotation_state admits: CHECK (id = 1).
StateId == 1

\* The daemon (run_daemon) and a one-shot invocation (--once).
Procs == {"daemon", "once"}

VARIABLES
    pool,               \* names of the image files in local_directory
    wallpaper_history,  \* table: filename -> row, for the filenames that have one
    rotation_state,     \* table: id -> row
    now,                \* what datetime.now() returns
    pc,                 \* each process's position
    cyc,                \* each process's current (or last) cycle: locals and what it did
    shownSinceReset,    \* mark_image_displayed calls since the last reset: the names, the number
    log                 \* StoreSpec: the store operations called so far, with their results

vars == <<pool, wallpaper_history, rotation_state, now, pc, cyc, shownSinceReset, log>>

\* ------------------------------------------------------- the store (SQL)

\* Mutant of InsertOrIgnoreState: INSERT OR REPLACE, the row is written afresh.
InsertOrReplaceState(rs) ==
    (StateId :> [all_images_shown |-> FALSE, last_reset_at |-> NULL])

\* INSERT OR IGNORE INTO rotation_state (id) VALUES (1): columns take their defaults.
InsertOrIgnoreState(rs) ==
    IF StateId \in DOMAIN rs THEN rs
    ELSE (StateId :> [all_images_shown |-> FALSE, last_reset_at |-> NULL])

\* init_database: CREATE TABLE IF NOT EXISTS (twice), then the singleton row.
InitDatabase(h, rs) == [history |-> h, state |-> InsertOrIgnoreState(rs)]

\* SELECT all_images_shown FROM rotation_state WHERE id = 1; state[0] if state else False
AllShownFlag(rs) ==
    IF StateId \in DOMAIN rs THEN rs[StateId].all_images_shown ELSE FALSE

\* Mutant of ResetCounts: the UPDATE of display_count left out.
ResetCountsNone(h) == h

\* UPDATE wallpaper_history SET display_count = 0
ResetCounts(h) == [f \in DOMAIN h |-> [h[f] EXCEPT !.display_count = 0]]

\* Mutant of ResetState: SET all_images_shown = 1 - all_images_shown.
ResetStateToggle(rs, t) ==
    [i \in DOMAIN rs |-> [all_images_shown |-> ~rs[i].all_images_shown,
                          last_reset_at |-> t]]

\* Mutant of ResetState: last_reset_at written, all_images_shown left as it was.
ResetStateKeepFlag(rs, t) ==
    [i \in DOMAIN rs |-> [rs[i] EXCEPT !.last_reset_at = t]]

\* UPDATE rotation_state SET all_images_shown = 0, last_reset_at = ?
ResetState(rs, t) ==
    [i \in DOMAIN rs |-> [all_images_shown |-> FALSE, last_reset_at |-> t]]

\* Mutant of Shown: WHERE display_count > 1.
ShownMoreThanOnce(h) == {f \in DOMAIN h : h[f].display_count > 1}

\* SELECT filename FROM wallpaper_history WHERE display_count > 0
Shown(h) == {f \in DOMAIN h : h[f].display_count > 0}

\* Mutant of FilterUnshown: the Path, not its name, looked up among the filenames, so
\* that nothing is filtered out.
FilterUnshownByPath(all_images, shown_filenames) == all_images

\* img for img in all_images if img.name not in shown_filenames
FilterUnshown(all_images, shown_filenames) ==
    {img \in all_images : img \notin shown_filenames}


\* get_unshown_images, given the files get_available_images found: the lazy reset
\* when the flag is set (committed), then the shown filenames, then the filter.
GetUnshownImages(all_images, h, rs, t) ==
    LET all_shown == AllShownFlag(rs)
        h2 == IF all_shown THEN ResetCounts(h) ELSE h
        rs2 == IF all_shown THEN ResetState(rs, t) ELSE rs
    IN  [history |-> h2, state |-> rs2, reset |-> all_shown,
         unshown |-> FilterUnshown(all_images, Shown(h2))]

\* Mutant of Upsert: INSERT OR REPLACE, which starts the row afresh.
UpsertReplace(h, filename, t) ==
    [f \in DOMAIN h \cup {filename} |->
        IF f = filename
        THEN [first_displayed_at |-> t, last_displayed_at |-> t, display_count |-> 1]
        ELSE h[f]]

\* INSERT INTO wallpaper_history ... VALUES (?, ?, ?, 1)
\*   ON CONFLICT(filename) DO UPDATE SET last_displayed_at = ?, display_count = display_count + 1
Upsert(h, filename, t) ==
    IF filename \in DOMAIN h
    THEN [h EXCEPT ![filename] = [@ EXCEPT !.last_displayed_at = t,
                                           !.display_count = @ + 1]]
    ELSE h @@ (filename :> [first_displayed_at |-> t, last_displayed_at |-> t,
                            display_count |-> 1])

\* Mutant of ExhaustionCheck: > for >=.
ExhaustionCheckStrict(shown_count, total_images) ==
    shown_count > total_images /\ total_images > 0

\* if shown_count >= total_images and total_images > 0
ExhaustionCheck(shown_count, total_images) ==
    shown_count >= total_images /\ total_images > 0

\* UPDATE rotation_state SET all_images_shown = 1 WHERE id = 1
SetAllShown(rs) ==
    [i \in DOMAIN rs |-> IF i = StateId THEN [rs[i] EXCEPT !.all_images_shown = TRUE]
                         ELSE rs[i]]

\* mark_image_displayed: the upsert, SELECT COUNT(*) ... WHERE display_count > 0 (over
\* every row of the table), the files now in the directory, the flag; one commit.
MarkImageDisplayed(all_images, h, rs, filename, t) ==
    LET h2 == Upsert(h, filename, t)
        shown_count == Cardinality(Shown(h2))
        total_images == Cardinality(all_images)
    IN  [history |-> h2,
         state |-> IF ExhaustionCheck(shown_count, total_images)
                   THEN SetAllShown(rs) ELSE rs]

\* ------------------------------------------------------------ activation

\* What the environment does to one set_wallpaper_hyprpaper call: whether the preload
\* command succeeds, whether something raises, and the monitors (of those the
\* wallpaper command is run for) for which it returns 0.
ActivationEnvs ==
    {e \in [preload : BOOLEAN, raised : BOOLEAN, ok : SUBSET Targets] :
        ~e.preload => (e.ok = {} /\ ~e.raised)}

\* set_wallpaper_hyprpaper's return value: False when the preload fails or anything
\* raises; True otherwise, whatever the wallpaper command returned for each monitor.
SetWallpaperHyprpaper(e) ==
    IF ~e.preload THEN FALSE
    ELSE IF e.raised THEN FALSE
    ELSE TRUE

\* Mutant of ShouldRecord: the display recorded whatever the activation returned.
ShouldRecordAlways(ret) == TRUE

\* change_wallpaper: if self.set_wallpaper_hyprpaper(selected_image): mark ...
ShouldRecord(ret) == ret

\* Mutant of RecomputeAfterRetry: the candidates recomputed whatever the sync returned.
RecomputeAlways(synced) == TRUE

\* change_wallpaper: if self.sync_images(): unshown_images = self.get_unshown_images()
RecomputeAfterRetry(synced) == synced

\* ------------------------------------------------------------ the cycle

\* No mark_image_displayed call since the last reset.
NoneShown == [names |-> {}, marks |-> 0]

NoteShown(s, filename) == [names |-> s.names \cup {filename}, marks |-> s.marks + 1]

NoCycle ==
    [fetches |-> 0, computes |-> 0, cand |-> {}, sel |-> {}, activations |-> 0,
     ret |-> FALSE, shownAny |-> FALSE, records |-> 0, firstEmpty |-> FALSE,
     retried |-> FALSE, retryOk |-> FALSE, didReset |-> FALSE,
     errors |-> {}, outcome |-> "none", startHistory |-> <<>>,
     startState |-> InsertOrIgnoreState(<<>>),
     all_images |-> {}, all_shown |-> FALSE, inTxn |-> FALSE,
     resetOn |-> "none", zeroed |-> FALSE]

\* A cycle that has made its first sync_images call, with the store as it found it.
NewCycle(h, rs, synced) ==
    [NoCycle EXCEPT !.fetches = 1, !.outcome = "running",
                    !.errors = IF synced THEN {} ELSE {"fetch"},
                    !.startHistory = h, !.startState = rs]

\* __init__ on a new local_directory: init_database has created the empty tables and
\* the singleton row; the directory holds whatever images are already there.
Init ==
    /\ pool \in SUBSET Files
    /\ wallpaper_history = <<>>
    /\ rotation_state = InitDatabase(<<>>, <<>>).state
    /\ now = 0
    /\ pc = [p \in Procs |-> "idle"]
    /\ cyc = [p \in Procs |-> NoCycle]
    /\ shownSinceReset = NoneShown
    /\ log = <<>>

\* sync_images: rsync copies files in (it never deletes); True when rsync exits 0. A
\* failed run may already have copied some files.
SyncedPool(added) == pool \cup added

\* Mutant of ProceedAfterSync: if not self.sync_images(): return
ProceedOnlyIfSynced(synced) == synced

\* run_once: the value sync_images returns is dropped, change_wallpaper is called
\* whatever it was.
ProceedAfterSync(synced) == TRUE

\* run_once: self.sync_images(), its result ignored; then change_wallpaper.
RunOnce(p, synced, added) ==
    /\ pc[p] = "idle"
    /\ pool' = SyncedPool(added)
    /\ LET go == ProceedAfterSync(synced)
           c == NewCycle(wallpaper_history, rotation_state, synced)
       IN  /\ cyc' = [cyc EXCEPT ![p] = IF go THEN c
                                        ELSE [c EXCEPT !.outcome = "fetch_failed"]]
           /\ pc' = [pc EXCEPT ![p] = IF go THEN "select" ELSE "ended"]
    /\ UNCHANGED <<wallpaper_history, rotation_state, now, shownSinceReset, log>>

\* change_wallpaper: unshown_images = self.get_unshown_images(), the first time and
\* after a successful retry sync; an empty list the second time ends the cycle.
GetUnshown(p) ==
    /\ pc[p] \in {"select", "reselect"}
    /\ LET r == GetUnshownImages(pool, wallpaper_history, rotation_state, now)
           first == pc[p] = "select"
       IN  /\ wallpaper_history' = r.history
           /\ rotation_state' = r.state
           /\ shownSinceReset' = IF r.reset THEN NoneShown ELSE shownSinceReset
           /\ cyc' = [cyc EXCEPT ![p].cand = r.unshown,
                                 ![p].computes = @ + 1,
                                 ![p].didReset = @ \/ r.reset,
                                 ![p].firstEmpty = IF first THEN r.unshown = {} ELSE @,
                                 ![p].errors = IF ~first /\ r.unshown = {}
                                               THEN @ \cup {"no_candidates"} ELSE @,
                                 ![p].outcome = IF ~first /\ r.unshown = {}
                                                THEN "no_images" ELSE @]
           /\ pc' = [pc EXCEPT ![p] = IF r.unshown # {} THEN "activate"
                                      ELSE IF first THEN "retry" ELSE "ended"]
    /\ UNCHANGED <<pool, now, log>>

\* A sqlite3 error inside get_unshown_images: nothing catches it up to main(), the
\* process ends. Raised after the reset's commit, the reset stays.
GetUnshownFails(p, afterCommit) ==
    /\ pc[p] \in {"select", "reselect"}
    /\ LET r == GetUnshownImages(pool, wallpaper_history, rotation_state, now)
           kept == afterCommit /\ r.reset
       IN  /\ wallpaper_history' = IF kept THEN r.history ELSE wallpaper_history
           /\ rotation_state' = IF kept THEN r.state ELSE rotation_state
           /\ shownSinceReset' = IF kept THEN NoneShown ELSE shownSinceReset
           /\ cyc' = [cyc EXCEPT ![p].didReset = @ \/ kept,
                                 ![p].errors = @ \cup {"storage"},
                                 ![p].outcome = "storage_error"]
    /\ pc' = [pc EXCEPT ![p] = "terminated"]
    /\ UNCHANGED <<pool, now, log>>

\* change_wallpaper, no unshown image: one more sync_images; get_unshown_images is
\* called again only if it returned True, otherwise the list is still empty: return False.
RetrySync(p, synced, added) ==
    /\ pc[p] = "retry"
    /\ pool' = SyncedPool(added)
    /\ LET again == RecomputeAfterRetry(synced)
       IN  /\ cyc' = [cyc EXCEPT ![p].fetches = @ + 1,
                                 ![p].retried = TRUE,
                                 ![p].retryOk = synced,
                                 ![p].errors = (IF synced THEN @ ELSE @ \cup {"fetch"})
                                     \cup (IF again THEN {} ELSE {"no_candidates"}),
                                 ![p].outcome = IF again THEN @ ELSE "no_images"]
           /\ pc' = [pc EXCEPT ![p] = IF again THEN "reselect" ELSE "ended"]
    /\ UNCHANGED <<wallpaper_history, rotation_state, now, shownSinceReset, log>>

\* change_wallpaper: random.choice(unshown_images), set_wallpaper_hyprpaper on it, and
\* only if that returned True the call of mark_image_displayed; else return False.
\* unshown_images is not read again.
Activate(p, img, e) ==
    /\ pc[p] = "activate"
    /\ img \in cyc[p].cand
    /\ LET ret == SetWallpaperHyprpaper(e)
       IN  /\ cyc' = [cyc EXCEPT ![p].sel = {img},
                                 ![p].cand = {},
                                 ![p].activations = @ + 1,
                                 ![p].ret = ret,
                                 ![p].shownAny = e.preload /\ e.ok # {},
                                 ![p].errors = IF ret THEN @ ELSE @ \cup {"activation"},
                                 ![p].outcome = IF ShouldRecord(ret) THEN @
                                                ELSE "activation_failed"]
           /\ pc' = [pc EXCEPT ![p] = IF ShouldRecord(ret) THEN "record" ELSE "ended"]
    /\ UNCHANGED <<pool, wallpaper_history, rotation_state, now, shownSinceReset, log>>

\* change_wallpaper: self.mark_image_displayed(selected_image.name); return True
Record(p) ==
    /\ pc[p] = "record"
    /\ \E img \in cyc[p].sel :
          LET r == MarkImageDisplayed(pool, wallpaper_history, rotation_state, img, now)
          IN  /\ wallpaper_history' = r.history
              /\ rotation_state' = r.state
              /\ shownSinceReset' = NoteShown(shownSinceReset, img)
    /\ cyc' = [cyc EXCEPT ![p].records = @ + 1, ![p].outcome = "done"]
    /\ pc' = [pc EXCEPT ![p] = "ended"]
    /\ UNCHANGED <<pool, now, log>>

\* A sqlite3 error inside mark_image_displayed: raised before the commit, the
\* connection's changes are dropped; nothing catches it up to main().
RecordFails(p) ==
    /\ pc[p] = "record"
    /\ cyc' = [cyc EXCEPT ![p].errors = @ \cup {"storage"},
                          ![p].outcome = "storage_error"]
    /\ pc' = [pc EXCEPT ![p] = "terminated"]
    /\ UNCHANGED <<pool, wallpaper_history, rotation_state, now, shownSinceReset, log>>

\* run_daemon: run_once has returned; time.sleep(interval_seconds) until the next one.
Sleep(p) ==
    /\ pc[p] = "ended"
    /\ pc' = [pc EXCEPT ![p] = "idle"]
    /\ cyc' = [cyc EXCEPT ![p] = NoCycle]
    /\ UNCHANGED <<pool, wallpaper_history, rotation_state, now, shownSinceReset, log>>

\* main() run again after the process ended: __init__ calls init_database.
Restart(p) ==
    /\ pc[p] \in {"terminated", "interrupted"}
    /\ LET r == InitDatabase(wallpaper_history, rotation_state)
       IN  /\ wallpaper_history' = r.history
           /\ rotation_state' = r.state
    /\ pc' = [pc EXCEPT ![p] = "idle"]
    /\ cyc' = [cyc EXCEPT ![p] = NoCycle]
    /\ UNCHANGED <<pool, now, shownSinceReset, log>>

\* No cycle is under way.
AllIdle == \A p \in Procs : pc[p] = "idle"

\* No process is between run_once's return and the sleep that follows at once.
NoneEnded == \A p \in Procs : pc[p] # "ended"

\* The user (or anything else) puts an image file into local_directory.
EnvAdd(f) ==
    /\ NoneEnded
    /\ f \notin pool
    /\ pool' = pool \cup {f}
    /\ UNCHANGED <<wallpaper_history, rotation_state, now, pc, cyc, shownSinceReset, log>>

\* An image file is deleted from local_directory.
EnvDelete(f) ==
    /\ NoneEnded
    /\ f \in pool
    /\ pool' = pool \ {f}
    /\ UNCHANGED <<wallpaper_history, rotation_state, now, pc, cyc, shownSinceReset, log>>

\* The cycles the scheduler runs one at a time: the daemon's.
Scheduled == {"daemon"}

CycleStep(p) ==
    \/ \E synced \in BOOLEAN, added \in SUBSET (Files \ pool) : RunOnce(p, synced, added)
    \/ GetUnshown(p)
    \/ \E afterCommit \in BOOLEAN : GetUnshownFails(p, afterCommit)
    \/ \E synced \in BOOLEAN, added \in SUBSET (Files \ pool) : RetrySync(p, synced, added)
    \/ \E img \in Files, e \in ActivationEnvs : Activate(p, img, e)
    \/ Record(p)
    \/ RecordFails(p)
    \/ Sleep(p)
    \/ Restart(p)

Next ==
    \/ \E p \in Scheduled : CycleStep(p)
    \/ \E f \in Files : EnvAdd(f)
    \/ \E f \in Files : EnvDelete(f)

Spec == Init /\ [][Next]_vars

NextBetween ==
    \/ \E p \in Scheduled : CycleStep(p)
    \/ \E f \in Files : AllIdle /\ EnvAdd(f)
    \/ \E f \in Files : AllIdle /\ EnvDelete(f)

SpecBetween == Init /\ [][NextBetween]_vars

\* A fixed pool and nothing failing but the fetch, which then brings nothing: rsync
\* finds no new file, hyprctl succeeds, the database answers.
NextFixed ==
    \E p \in Scheduled :
        \/ \E synced \in BOOLEAN : RunOnce(p, synced, {})
        \/ GetUnshown(p)
        \/ \E synced \in BOOLEAN : RetrySync(p, synced, {})
        \/ \E img \in Files, e \in ActivationEnvs :
              SetWallpaperHyprpaper(e) /\ Activate(p, img, e)
        \/ Record(p)
        \/ Sleep(p)

SpecFixed == Init /\ [][NextFixed]_vars

\* The daemon left to itself: run_daemon's while True loop starts the next run_once
\* after every sleep, so a daemon step that can be taken is taken. Files come and go
\* between the cycles; rsync, hyprctl and the database do as in NextFixed.
DaemonStep == NextFixed

NextLive ==
    \/ DaemonStep
    \/ \E f \in Files : AllIdle /\ EnvAdd(f)
    \/ \E f \in Files : AllIdle /\ EnvDelete(f)

SpecLive == Init /\ [][NextLive]_vars /\ WF_vars(DaemonStep)

\* The process is ended from outside (SIGTERM, SIGKILL, Ctrl-C) while run_once is
\* between two of its steps and mark_image_displayed has not committed: an open
\* transaction is rolled back, what was committed stays.
Interrupt(p) ==
    /\ pc[p] \in {"select", "retry", "reselect", "activate", "record"}
    /\ pc' = [pc EXCEPT ![p] = "interrupted"]
    /\ cyc' = [cyc EXCEPT ![p].outcome = "interrupted"]
    /\ UNCHANGED <<pool, wallpaper_history, rotation_state, now, shownSinceReset, log>>

NextInterrupt ==
    \/ Next
    \/ \E p \in Scheduled : Interrupt(p)

SpecInterrupt == Init /\ [][NextInterrupt]_vars

\* ------------------------------------------------------- overlapping cycles
\* The daemon and a second process started with --once work on the same database
\* file, each through its own connection. get_unshown_images is taken statement by
\* statement; a connection's uncommitted writes are seen by nobody else, and only one
\* connection at a time can have written without having committed.

\* Mutant of Autocommit: isolation_level=None, every statement committed by itself.
AutocommitOn == TRUE

\* sqlite3.connect(self.db_path) with the default isolation_level: the first UPDATE
\* opens a transaction that lasts until conn.commit().
Autocommit == FALSE

\* No other connection holds the write lock.
LockFree(p) == \A q \in Procs \ {p} : ~cyc[q].inTxn

\* run_once of a cycle that may overlap another one: sync_images, then change_wallpaper.
RunOnceOverlapping(p, synced, added) ==
    /\ pc[p] = "idle"
    /\ pool' = SyncedPool(added)
    /\ cyc' = [cyc EXCEPT ![p] = NewCycle(<<>>, NoCycle.startState, synced)]
    /\ pc' = [pc EXCEPT ![p] = "select"]
    /\ UNCHANGED <<wallpaper_history, rotation_state, now, shownSinceReset, log>>

\* get_unshown_images: all_images = self.get_available_images(), then the SELECT of
\* all_images_shown, outside any transaction.
ReadFlag(p) ==
    /\ pc[p] \in {"select", "reselect"}
    /\ LET all_shown == AllShownFlag(rotation_state)
       IN  /\ cyc' = [cyc EXCEPT ![p].all_images = pool, ![p].all_shown = all_shown]
           /\ pc' = [pc EXCEPT ![p] = IF all_shown THEN "reset_counts" ELSE "read_shown"]
    /\ UNCHANGED <<pool, wallpaper_history, rotation_state, now, shownSinceReset, log>>

\* get_unshown_images, all_shown true: UPDATE wallpaper_history SET display_count = 0.
\* It takes the write lock; the zeroed counts stay in the connection until the commit.
UpdateCounts(p) ==
    /\ pc[p] = "reset_counts"
    /\ LockFree(p)
    /\ wallpaper_history' = IF Autocommit THEN ResetCounts(wallpaper_history)
                                          ELSE wallpaper_history
    /\ cyc' = [cyc EXCEPT ![p].inTxn = ~Autocommit,
                          ![p].resetOn = IF AllShownFlag(rotation_state)
                                         THEN "flag_set" ELSE "flag_clear",
                          ![p].zeroed = Shown(wallpaper_history) # {}]
    /\ pc' = [pc EXCEPT ![p] = "reset_state"]
    /\ UNCHANGED <<pool, rotation_state, now, shownSinceReset, log>>

\* get_unshown_images: UPDATE rotation_state SET all_images_shown = 0, last_reset_at,
\* then conn.commit(): what the connection has written becomes the database's.
UpdateStateAndCommit(p) ==
    /\ pc[p] = "reset_state"
    /\ wallpaper_history' = IF cyc[p].inTxn THEN ResetCounts(wallpaper_history)
                                            ELSE wallpaper_history
    /\ rotation_state' = ResetState(rotation_state, now)
    /\ shownSinceReset' = NoneShown
    /\ cyc' = [cyc EXCEPT ![p].inTxn = FALSE, ![p].didReset = TRUE]
    /\ pc' = [pc EXCEPT ![p] = "read_shown"]
    /\ UNCHANGED <<pool, now, log>>

\* get_unshown_images: the SELECT of the shown filenames, the filter over all_images,
\* and what change_wallpaper does with the list (as in GetUnshown).
ReadShown(p) ==
    /\ pc[p] = "read_shown"
    /\ LET unshown == FilterUnshown(cyc[p].all_images, Shown(wallpaper_history))
           first == cyc[p].computes = 0
       IN  /\ cyc' = [cyc EXCEPT ![p].cand = unshown,
                                 ![p].all_images = {},
                                 ![p].all_shown = FALSE,
                                 ![p].computes = @ + 1,
                                 ![p].firstEmpty = IF first THEN unshown = {} ELSE @,
                                 ![p].errors = IF ~first /\ unshown = {}
                                               THEN @ \cup {"no_candidates"} ELSE @,
                                 ![p].outcome = IF ~first /\ unshown = {}
                                                THEN "no_images" ELSE @]
           /\ pc' = [pc EXCEPT ![p] = IF unshown # {} THEN "activate"
                                      ELSE IF first THEN "retry" ELSE "ended"]
    /\ UNCHANGED <<pool, wallpaper_history, rotation_state, now, shownSinceReset, log>>

\* mark_image_displayed is one transaction from its INSERT to its commit: it waits for
\* the write lock, and nobody sees its row before the flag check has been made.
RecordSerialized(p) == LockFree(p) /\ Record(p)

\* As in NextFixed the pool is fixed and nothing fails: rsync succeeds and finds no new
\* file, hyprctl succeeds, the database answers.
OverlappingStep(p) ==
    \/ RunOnceOverlapping(p, TRUE, {})
    \/ ReadFlag(p)
    \/ UpdateCounts(p)
    \/ UpdateStateAndCommit(p)
    \/ ReadShown(p)
    \/ RetrySync(p, TRUE, {})
    \/ \E img \in Files, e \in ActivationEnvs :
          SetWallpaperHyprpaper(e) /\ Activate(p, img, e)
    \/ RecordSerialized(p)
    \/ Sleep(p)

NextOverlapping == \E p \in Procs : OverlappingStep(p)

SpecOverlapping == Init /\ [][NextOverlapping]_vars

\* ------------------------------------------- the store operations, called directly
\* Each call is logged with the time it was made at; the next one is made later.

Logged(op, files, ret, reset) ==
    Append(log, [op |-> op, files |-> files, t |-> now, ret |-> ret, reset |-> reset])

\* get_unshown_images()
CallGetUnshown ==
    /\ Len(log) < MaxCalls
    /\ LET r == GetUnshownImages(pool, wallpaper_history, rotation_state, now)
       IN  /\ wallpaper_history' = r.history
           /\ rotation_state' = r.state
           /\ shownSinceReset' = IF r.reset THEN NoneShown ELSE shownSinceReset
           /\ log' = Logged("get_unshown_images", {}, r.unshown, r.reset)
    /\ now' = now + 1
    /\ UNCHANGED <<pool, pc, cyc>>

\* mark_image_displayed(filename)
CallMark(filename) ==
    /\ Len(log) < MaxCalls
    /\ LET r == MarkImageDisplayed(pool, wallpaper_history, rotation_state, filename, now)
       IN  /\ wallpaper_history' = r.history
           /\ rotation_state' = r.state
    /\ shownSinceReset' = NoteShown(shownSinceReset, filename)
    /\ log' = Logged("mark_image_displayed", {filename}, {}, FALSE)
    /\ now' = now + 1
    /\ UNCHANGED <<pool, pc, cyc>>

\* init_database()
CallInit ==
    /\ Len(log) < MaxCalls
    /\ LET r == InitDatabase(wallpaper_history, rotation_state)
       IN  /\ wallpaper_history' = r.history
           /\ rotation_state' = r.state
    /\ log' = Logged("init_database", {}, {}, FALSE)
    /\ now' = now + 1
    /\ UNCHANGED <<pool, pc, cyc, shownSinceReset>>

\* A file appears in, or disappears from, local_directory between two calls.
PoolChange(f) ==
    /\ Len(log) < MaxCalls
    /\ pool' = IF f \in pool THEN pool \ {f} ELSE pool \cup {f}
    /\ log' = Logged(IF f \in pool THEN "delete" ELSE "add", {f}, {}, FALSE)
    /\ now' = now + 1
    /\ UNCHANGED <<wallpaper_history, rotation_state, pc, cyc, shownSinceReset>>

StoreNext ==
    \/ CallGetUnshown
    \/ \E filename \in Files : CallMark(filename)
    \/ CallInit
    \/ \E f \in Files : PoolChange(f)

StoreSpec == Init /\ [][StoreNext]_vars

\* ------------------------------------------------------------- the claims

LastCall == log[Len(log)]

\* The row of filename f in table h, as a set: empty when there is none.
Row(h, f) == IF f \in DOMAIN h THEN {h[f]} ELSE {}

\* Every file now in the directory has a row with display_count > 0.
AllPoolShown == \A f \in pool : f \in Shown(wallpaper_history)

\* C1 (as claimed): over non-overlapping cycles, with files added and deleted between
\* them, the reset of get_unshown_images fires only when every image currently in the
\* pool has display_count > 0, so that no image is shown again before every pool
\* image has been shown once.
C1_ResetOnlyWhenAllShown ==
    [][(AllShownFlag(rotation_state) /\ ~AllShownFlag(rotation_state')) => AllPoolShown]_vars

\* C2: for every pool of size N >= 1, after exactly N mark_image_displayed calls in a
\* row that cover N distinct filenames, all_images_shown is set.
C2_ExhaustionAfterNDistinct ==
    LET N == Cardinality(pool)
        lastN == (Len(log) - N + 1)..Len(log)
    IN  (/\ N >= 1
         /\ Len(log) >= N
         /\ \A i \in lastN : log[i].op = "mark_image_displayed"
         /\ Cardinality(UNION {log[i].files : i \in lastN}) = N)
        => AllShownFlag(rotation_state)

\* C2's case: a pool of at least two files, that many marks of distinct files in a row.
C2_Witness ==
    LET N == Cardinality(pool)
        lastN == (Len(log) - N + 1)..Len(log)
    IN  /\ N >= 2
        /\ Len(log) >= N
        /\ \A i \in lastN : log[i].op = "mark_image_displayed"
        /\ Cardinality(UNION {log[i].files : i \in lastN}) = N
        /\ AllShownFlag(rotation_state)

\* C3 (as claimed): whenever no cycle is under way and the pool is not empty,
\* all_images_shown is true exactly when every file in the pool has a row with
\* display_count > 0.
C3_FlagIffAllPoolShown ==
    (AllIdle /\ pool # {}) => (AllShownFlag(rotation_state) <=> AllPoolShown)

\* C4: get_unshown_images returns exactly the pool's files that are not shown once
\* the call is over; they are all in the pool; it resets exactly when the flag was
\* set; and without a reset it returns no file that was shown when it was called.
C4_NoRepeatWithinCycle ==
    [][(Len(log') = Len(log) + 1 /\ log'[Len(log')].op = "get_unshown_images") =>
        LET e == log'[Len(log')]
        IN  /\ e.ret \subseteq pool
            /\ e.ret = pool \ Shown(wallpaper_history')
            /\ e.reset <=> AllShownFlag(rotation_state)
            /\ e.reset => Shown(wallpaper_history') = {}
            /\ ~e.reset => /\ e.ret \cap Shown(wallpaper_history) = {}
                           /\ e.ret = pool \ Shown(wallpaper_history)]_vars

\* C4's case: a call without a reset that left a shown pool file out and returned
\* another one.
C4_Witness ==
    /\ Len(log) > 0
    /\ LastCall.op = "get_unshown_images"
    /\ ~LastCall.reset
    /\ pool \cap Shown(wallpaper_history) # {}
    /\ LastCall.ret # {}

\* C5 (as claimed): when activation fails, the cycle leaves the chosen file's row as
\* it was when the cycle started: none created, none changed.
C5_NoMutationOnActivationFailure ==
    \A p \in Procs :
        cyc[p].outcome = "activation_failed" =>
            /\ cyc[p].records = 0
            /\ \A f \in cyc[p].sel :
                   Row(wallpaper_history, f) = Row(cyc[p].startHistory, f)

\* C5 (amended): mark_image_displayed is called only after set_wallpaper_hyprpaper
\* returned True; when it returned False the cycle ends without the call, no row was
\* created, no display_count raised, no timestamp changed; the only change since the
\* cycle started is the reset get_unshown_images commits when the flag was set.
C5_RecordOnlyAfterActivation ==
    \A p \in Procs :
        /\ pc[p] = "record" => (cyc[p].ret /\ cyc[p].activations = 1)
        /\ cyc[p].records > 0 => (cyc[p].ret /\ cyc[p].activations = 1)
        /\ cyc[p].outcome = "activation_failed" =>
              /\ pc[p] = "ended"
              /\ ~cyc[p].ret
              /\ cyc[p].records = 0
              /\ DOMAIN wallpaper_history = DOMAIN cyc[p].startHistory
              /\ IF cyc[p].didReset
                 THEN /\ AllShownFlag(cyc[p].startState)
                      /\ wallpaper_history = ResetCounts(cyc[p].startHistory)
                      /\ ~AllShownFlag(rotation_state)
                 ELSE /\ wallpaper_history = cyc[p].startHistory
                      /\ rotation_state = cyc[p].startState

\* C5's case: activation failed in a cycle whose selection had reset the counts, the
\* chosen file's among them.
C5_Witness ==
    \E p \in Procs :
        /\ cyc[p].outcome = "activation_failed"
        /\ cyc[p].didReset
        /\ \E f \in cyc[p].sel :
               Row(wallpaper_history, f) # Row(cyc[p].startHistory, f)

\* C6 (as claimed): a display is recorded only for an image that was set on at least
\* one target.
C6_RecordedOnlyIfShown ==
    \A p \in Procs : cyc[p].records > 0 => cyc[p].shownAny

\* C7: from an empty store, with a fixed pool of N >= 1 files and nothing failing:
\* the displays since the last reset are of distinct files; with k of them made,
\* get_unshown_images returns exactly the N - k other files of the pool (the whole
\* pool when k = 0); the flag is set exactly when k = N; and the call that finds the
\* flag set resets (every display_count 0, flag cleared) and returns the whole pool.
C7_FullRotation ==
    LET N == Cardinality(pool)
        k == shownSinceReset.marks
    IN  N >= 1 =>
          /\ Cardinality(shownSinceReset.names) = k
          /\ k <= N
          /\ (k = N) <=> AllShownFlag(rotation_state)
          /\ \A p \in Scheduled :
               /\ cyc[p].outcome \notin {"no_images", "activation_failed", "storage_error"}
               /\ pc[p] = "activate" =>
                    /\ cyc[p].cand = pool \ shownSinceReset.names
                    /\ Cardinality(cyc[p].cand) = N - k
                    /\ cyc[p].didReset <=> AllShownFlag(cyc[p].startState)
                    /\ cyc[p].didReset =>
                         /\ k = 0
                         /\ cyc[p].cand = pool
                         /\ DOMAIN wallpaper_history = pool
                         /\ Shown(wallpaper_history) = {}
                         /\ rotation_state[StateId].last_reset_at = now

\* C7's case: a pool of at least two files has been through a whole rotation, and the
\* next selection has reset and returned the whole pool.
C7_Witness ==
    /\ Cardinality(pool) >= 2
    /\ pc["daemon"] = "activate"
    /\ cyc["daemon"].didReset
    /\ cyc["daemon"].cand = pool

\* C8: mark_image_displayed(f) at time t creates f's row with display_count 1 and both
\* timestamps t when there is none, and otherwise adds 1 to display_count, sets
\* last_displayed_at to t and keeps first_displayed_at; no other row changes. So two
\* calls in a row for a file that had no row, at t1 and t2, leave display_count 2,
\* first_displayed_at t1 and last_displayed_at t2.
C8_StepUpsert ==
    (Len(log') = Len(log) + 1 /\ log'[Len(log')].op = "mark_image_displayed") =>
        \A f \in log'[Len(log')].files :
            /\ DOMAIN wallpaper_history' = DOMAIN wallpaper_history \cup {f}
            /\ \A g \in DOMAIN wallpaper_history \ {f} :
                   wallpaper_history'[g] = wallpaper_history[g]
            /\ f \notin DOMAIN wallpaper_history =>
                   wallpaper_history'[f] =
                       [first_displayed_at |-> now, last_displayed_at |-> now,
                        display_count |-> 1]
            /\ f \in DOMAIN wallpaper_history =>
                   wallpaper_history'[f] =
                       [first_displayed_at |-> wallpaper_history[f].first_displayed_at,
                        last_displayed_at |-> now,
                        display_count |-> wallpaper_history[f].display_count + 1]

\* The last two calls were mark_image_displayed of f, the first ever made for f.
TwiceInARow(f) ==
    /\ Len(log) >= 2
    /\ log[Len(log) - 1].op = "mark_image_displayed"
    /\ log[Len(log)].op = "mark_image_displayed"
    /\ log[Len(log) - 1].files = {f}
    /\ log[Len(log)].files = {f}
    /\ \A i \in 1..(Len(log) - 2) :
           log[i].op = "mark_image_displayed" => log[i].files # {f}

C8_TwoCalls ==
    \A f \in Files :
        TwiceInARow(f) =>
            /\ f \in DOMAIN wallpaper_history
            /\ wallpaper_history[f] =
                   [first_displayed_at |-> log[Len(log) - 1].t,
                    last_displayed_at |-> log[Len(log)].t,
                    display_count |-> 2]

C8_UpsertCorrect == []C8_TwoCalls /\ [][C8_StepUpsert]_vars

\* C8's case: a file marked twice in a row, at two different times, beside the row of
\* another file.
C8_Witness ==
    \E f \in Files :
        /\ TwiceInARow(f)
        /\ log[Len(log) - 1].t < log[Len(log)].t
        /\ DOMAIN wallpaper_history # {f}

\* C9 (as claimed): a cycle whose first candidate list was empty has, when it ends,
\* fetched twice and computed the candidates twice.
C9_RetryAlwaysRecomputes ==
    \A p \in Procs :
        (cyc[p].firstEmpty /\ pc[p] = "ended") =>
            (cyc[p].fetches = 2 /\ cyc[p].computes = 2)

\* C9 (amended): an empty candidate list is followed by exactly one more sync_images
\* call; the candidates are computed once more only if that call returned True; a
\* cycle with no candidate left ends without activation, without a recorded display
\* and without an exception; no cycle fetches or computes more than twice.
C9_OneRetryRecomputeIfSynced ==
    \A p \in Procs :
        /\ cyc[p].fetches <= 2
        /\ cyc[p].computes <= 2
        /\ cyc[p].retried <=> cyc[p].fetches = 2
        /\ cyc[p].retried => cyc[p].firstEmpty
        /\ (cyc[p].firstEmpty /\ pc[p] \notin {"retry", "terminated"}) => cyc[p].retried
        /\ cyc[p].computes = 2 => (cyc[p].retried /\ cyc[p].retryOk)
        /\ (cyc[p].retried /\ cyc[p].retryOk /\ pc[p] \notin {"reselect", "terminated"})
               => cyc[p].computes = 2
        /\ (cyc[p].retried /\ ~cyc[p].retryOk)
               => (cyc[p].computes = 1 /\ cyc[p].outcome = "no_images")
        /\ cyc[p].outcome = "no_images" =>
               /\ pc[p] = "ended"
               /\ cyc[p].retried
               /\ cyc[p].cand = {}
               /\ cyc[p].activations = 0
               /\ cyc[p].records = 0
               /\ "storage" \notin cyc[p].errors

\* C9's case: the first list was empty, the retry succeeded, the second list was
\* empty too, and the cycle ended.
C9_Witness ==
    \E p \in Procs :
        /\ cyc[p].outcome = "no_images"
        /\ cyc[p].firstEmpty
        /\ cyc[p].fetches = 2
        /\ cyc[p].computes = 2

\* C10 (as claimed): whatever error occurs in a cycle (fetch, storage, no candidates,
\* activation), the process does not end.
C10_NoErrorEndsTheDaemon ==
    \A p \in Procs : cyc[p].errors # {} => pc[p] # "terminated"

\* C11 (as claimed): a cycle ended from outside at any point before
\* mark_image_displayed has committed (during the fetch, the selection or the
\* activation) leaves every wallpaper_history row and the rotation_state row as they
\* were when the cycle started.
C11_InterruptLeavesStoreAsAtStart ==
    \A p \in Procs :
        pc[p] = "interrupted" =>
            /\ wallpaper_history = cyc[p].startHistory
            /\ rotation_state = cyc[p].startState

\* C11 (amended): a cycle ended from outside before mark_image_displayed has committed
\* has recorded no display: no row was created or deleted, no display_count raised, no
\* last_displayed_at changed. The store differs from the cycle's start only if the flag
\* was set then, and then by the whole reset get_unshown_images had committed: every
\* display_count 0 and the flag cleared.
C11_InterruptLeavesOnlyTheReset ==
    \A p \in Procs :
        pc[p] = "interrupted" =>
            /\ cyc[p].records = 0
            /\ DOMAIN wallpaper_history = DOMAIN cyc[p].startHistory
            /\ \A f \in DOMAIN wallpaper_history :
                   /\ wallpaper_history[f].last_displayed_at
                          = cyc[p].startHistory[f].last_displayed_at
                   /\ wallpaper_history[f].display_count
                          = IF cyc[p].didReset THEN 0
                            ELSE cyc[p].startHistory[f].display_count
            /\ DOMAIN rotation_state = DOMAIN cyc[p].startState
            /\ IF cyc[p].didReset
               THEN AllShownFlag(cyc[p].startState) /\ ~AllShownFlag(rotation_state)
               ELSE rotation_state = cyc[p].startState

\* An interrupted cycle whose get_unshown_images had reset a store with shown images.
C11_Witness ==
    \E p \in Procs :
        /\ pc[p] = "interrupted"
        /\ cyc[p].didReset
        /\ cyc[p].activations = 0
        /\ Shown(cyc[p].startHistory) # {}
        /\ Shown(wallpaper_history) = {}

\* C12 (as claimed): with two overlapping cycles, mark_image_displayed being one
\* serialized transaction, no image ends up with display_count > 1 from both cycles
\* having read it as unshown, and the flag is never left unset once every pool image
\* has display_count > 0.
C12_NoDoubleCountNoMissedFlag ==
    /\ \A f \in DOMAIN wallpaper_history : wallpaper_history[f].display_count <= 1
    /\ (pool # {} /\ AllPoolShown) => AllShownFlag(rotation_state)

\* C13: the reset of get_unshown_images is atomic for every other connection: the
\* zeroing of the counts and the clearing of the flag become visible in one step. No
\* step zeroes a display_count and leaves the flag set, and no step clears the flag
\* and leaves a row with its old non-zero count.
C13_ResetVisibleAtOnce ==
    [][/\ (\E f \in DOMAIN wallpaper_history :
              /\ f \in DOMAIN wallpaper_history'
              /\ wallpaper_history[f].display_count > 0
              /\ wallpaper_history'[f].display_count = 0)
          => ~AllShownFlag(rotation_state')
       /\ (AllShownFlag(rotation_state) /\ ~AllShownFlag(rotation_state'))
          => Shown(wallpaper_history') = {}]_vars

\* One connection is between the two UPDATEs of a reset that zeroes shown images
\* while the other one has just read the flag: the database still shows the flag set
\* and the old counts.
C13_Witness ==
    \E p \in Procs, q \in Procs :
        /\ p # q
        /\ pc[p] = "reset_state"
        /\ cyc[p].zeroed
        /\ pc[q] = "reset_counts"
        /\ AllShownFlag(rotation_state)
        /\ Shown(wallpaper_history) # {}

\* Table h without the rows of the filenames in D.
DropRows(h, D) == [f \in DOMAIN h \ D |-> h[f]]

\* C14 (as claimed): rows of files that are no longer in the pool are invisible. For
\* the store and any store that differs from it only in rows of filenames outside the
\* pool, get_unshown_images returns the same candidates and mark_image_displayed of a
\* pool file sets or leaves the flag identically.
C14_StaleRowsInvisible ==
    \A D \in SUBSET (DOMAIN wallpaper_history \ pool) :
        LET h2 == DropRows(wallpaper_history, D)
        IN  /\ GetUnshownImages(pool, wallpaper_history, rotation_state, now).unshown
                   = GetUnshownImages(pool, h2, rotation_state, now).unshown
            /\ \A f \in pool :
                   AllShownFlag(MarkImageDisplayed(pool, wallpaper_history,
                                                   rotation_state, f, now).state)
                       = AllShownFlag(MarkImageDisplayed(pool, h2,
                                                         rotation_state, f, now).state)

\* C15: the reset is idempotent. Committed on a store that is already reset (flag
\* clear, every display_count 0), it leaves the flag clear and every count 0, the
\* cycle goes on to read the shown filenames (no error), and no wallpaper_history
\* row is created or deleted.
C15_ResetIdempotent ==
    [][\A p \in Procs :
          (/\ pc[p] = "reset_state"
           /\ pc'[p] # "reset_state"
           /\ ~AllShownFlag(rotation_state)
           /\ Shown(wallpaper_history) = {})
          => /\ pc'[p] = "read_shown"
             /\ ~AllShownFlag(rotation_state')
             /\ DOMAIN rotation_state' = DOMAIN rotation_state
             /\ Shown(wallpaper_history') = {}
             /\ wallpaper_history' = wallpaper_history]_vars

\* A second reset has been committed on a store the other cycle had already reset,
\* with rows in it.
C15_Witness ==
    \E p \in Procs :
        /\ pc[p] = "read_shown"
        /\ cyc[p].didReset
        /\ cyc[p].resetOn = "flag_clear"
        /\ ~cyc[p].zeroed
        /\ DOMAIN wallpaper_history # {}

\* An init_database call is the step just taken.
C16_StepInit ==
    (Len(log') = Len(log) + 1 /\ log'[Len(log')].op = "init_database")
        => /\ wallpaper_history' = wallpaper_history
           /\ rotation_state' = rotation_state

\* C16: init_database is idempotent and non-destructive: called on any store the
\* program has produced, it changes no wallpaper_history row and not the
\* rotation_state row; after any number of calls rotation_state has exactly the one
\* row with id 1.
C16_InitIdempotent ==
    /\ [](DOMAIN rotation_state = {StateId})
    /\ [][C16_StepInit]_vars

\* init_database called twice in a row on a store with a shown image and the flag set.
C16_Witness ==
    /\ Len(log) >= 2
    /\ LastCall.op = "init_database"
    /\ log[Len(log) - 1].op = "init_database"
    /\ Shown(wallpaper_history) # {}
    /\ AllShownFlag(rotation_state)

\* The cycle of p started with a sync_images that returned False (and has made no
\* second one).
InitialFetchFailed(p) == "fetch" \in cyc[p].errors /\ ~cyc[p].retried

\* The first get_unshown_images of a cycle whose sync failed works on the files that
\* are in the directory, and a non-empty result takes the cycle to the activation.
C17_StepSelect ==
    \A p \in Procs :
        (InitialFetchFailed(p) /\ pc[p] = "select" /\ pc'[p] \notin {"select", "terminated"})
            => /\ cyc'[p].cand = FilterUnshown(pool, Shown(wallpaper_history'))
               /\ cyc'[p].cand # {} => pc'[p] = "activate"

\* C17: a failed fetch is not fatal. When the first sync_images of a cycle fails, the
\* cycle still goes on to get_unshown_images over the files already in the directory;
\* if there is an unshown one it is activated, and if set_wallpaper_hyprpaper succeeds
\* the cycle ends done with that image recorded.
C17_FetchFailureNotFatal ==
    /\ [](\A p \in Procs :
             InitialFetchFailed(p) =>
                 /\ cyc[p].outcome # "fetch_failed"
                 /\ pc[p] = "ended" => cyc[p].computes >= 1
                 /\ (pc[p] = "ended" /\ cyc[p].ret) =>
                        /\ cyc[p].outcome = "done"
                        /\ cyc[p].records = 1
                        /\ cyc[p].sel # {}
                        /\ cyc[p].sel \subseteq Shown(wallpaper_history))
    /\ [][C17_StepSelect]_vars

\* A cycle whose only sync_images failed has ended done, its image recorded.
C17_Witness ==
    \E p \in Procs :
        /\ InitialFetchFailed(p)
        /\ cyc[p].fetches = 1
        /\ pc[p] = "ended"
        /\ cyc[p].outcome = "done"
        /\ cyc[p].sel \subseteq Shown(wallpaper_history)

\* C18 (as claimed): the state "pool not empty, every pool file shown, flag clear" is
\* only passed through. If from some point on the pool is not empty and does not
\* change, with every activation succeeding, the daemon's cycles display an image
\* again and again; they do not end up failing with no images available for ever.
C18_EventuallyDisplays ==
    (<>[](pool # {}) /\ <>[][pool' = pool]_vars)
        => []<>(\E p \in Procs : cyc[p].outcome = "done")

\* The activation step picks its image from the list get_unshown_images returned to
\* this cycle; the record step writes the row of that image and no other.
C19_StepCycle ==
    \A p \in Procs :
        /\ (pc[p] = "activate" /\ pc'[p] \in {"record", "ended"})
              => \E img \in cyc[p].cand : cyc'[p].sel = {img}
        /\ cyc'[p].records > cyc[p].records
              => /\ pc[p] = "record"
                 /\ cyc[p].activations = 1
                 /\ cyc'[p].sel = cyc[p].sel
                 /\ \A f \in Files :
                        IF f \in cyc[p].sel
                        THEN /\ f \in DOMAIN wallpaper_history'
                             /\ wallpaper_history'[f].display_count = 1
                        ELSE Row(wallpaper_history', f) = Row(wallpaper_history, f)

\* C19: with cycles that do not overlap, every display_count is 0 or 1, each cycle
\* calls mark_image_displayed at most once, and only for the one filename that was in
\* the list get_unshown_images returned to that cycle and was passed to the activation.
C19_AtMostOncePerRotation ==
    /\ [](/\ \A f \in DOMAIN wallpaper_history :
                 wallpaper_history[f].display_count \in {0, 1}
          /\ \A p \in Procs : cyc[p].records <= 1)
    /\ [][C19_StepCycle]_vars

\* A cycle of a second rotation has recorded its image: the reset it made first took
\* the count to 0, the record to 1.
C19_Witness ==
    \E p \in Procs :
        /\ pc[p] = "ended"
        /\ cyc[p].records = 1
        /\ cyc[p].didReset
        /\ \E f \in cyc[p].sel :
               /\ f \in Shown(cyc[p].startHistory)
               /\ wallpaper_history[f].display_count = 1

\* C20 (as claimed): the lazy reset (read the flag, then zero the counts and clear the
\* flag) is safe under overlapping cycles: a reset is committed only on a store whose
\* flag is still set, so that one exhaustion causes at most one reset, and no reset
\* zeroes a display that another cycle recorded after the flag had been cleared.
C20_LazyResetSafe ==
    [][\A p \in Procs :
          (pc[p] = "reset_state" /\ pc'[p] = "read_shown")
              => /\ AllShownFlag(rotation_state)
                 /\ ~AllShownFlag(rotation_state)
                       => Shown(wallpaper_history') = Shown(wallpaper_history)]_vars

====
